---- MODULE Spec2Model ----
(***************************************************************************)
(* Model of fairpyx/algorithms/Ex4.py: the two greedy allocators           *)
(* (find_proportional_allocation, allocate_minimal_bundles), the helpers   *)
(* get_ranking_index and causes_envy, the valuation sum total_value and    *)
(* the two checkers is_envy_free and is_pareto_optimal.                    *)
(*                                                                         *)
(* Python values are represented as follows.                               *)
(*   list            a sequence                                            *)
(*   dict (ordered)  a sequence of entries [k |-> key, v |-> value] with   *)
(*                   distinct keys, in insertion order; a dict keyed by    *)
(*                   agents whose key order is irrelevant or kept apart is *)
(*                   a function on the agents                              *)
(*   float('inf')    Inf                                                   *)
(*   a raised KeyError / a returned value                                  *)
(*                   [exc |-> "KeyError", val |-> 0] /                     *)
(*                   [exc |-> "none", val |-> value]                       *)
(***************************************************************************)
EXTENDS Integers, Sequences, FiniteSets, TLC

VARIABLES call, pc, agents, items, items_keys, rankings, allocation,
          bundle, player, remaining_items, allocated_items, assigned_items,
          sorted_agents, sorted_items, probes, n, ret

vars == <<call, pc, agents, items, items_keys, rankings, allocation,
          bundle, player, remaining_items, allocated_items, assigned_items,
          sorted_agents, sorted_items, probes, n, ret>>

-----------------------------------------------------------------------------
(* Bounds of the enumerated inputs. *)

\* valuations of the enumerated instances range over 0..MaxVal
MaxVal == 2

\* an enumerated ranking has at most MaxRankLen bundles
MaxRankLen == 2

\* float('inf'): larger than every index enumerate() can produce here
Inf == 1000000

-----------------------------------------------------------------------------
(* Input universes. *)

AgentNames == <<"Alice", "Bob", "Charlie">>

TwoAgents == <<"Alice", "Bob">>

SmallItems == {"A", "B"}

Range(s) == {s[j] : j \in 1..Len(s)}

\* sequences over S of length at most m without repeated elements
DistinctSeqs(S, m) ==
    {s \in UNION {[1..l -> S] : l \in 0..m} :
        \A p, q \in 1..Len(s) : p /= q => s[p] /= s[q]}

\* a valuation table: item -> value, in insertion order
Tables ==
    UNION {{[j \in 1..Len(ks) |-> [k |-> ks[j], v |-> f[j]]] :
               f \in [1..Len(ks) -> 0..MaxVal]} :
           ks \in DistinctSeqs(SmallItems, Cardinality(SmallItems))}

\* a bundle: a non-empty list of distinct items
Bundles == DistinctSeqs(SmallItems, Cardinality(SmallItems)) \ {<<>>}

\* a ranking: a list of distinct bundles, most preferred first
RankingLists == DistinctSeqs(Bundles, MaxRankLen)

\* get_ranking_index only asks whether a bundle holds an item, so where no
\* bundle is handed out one order per bundle is enough
SetBundles == {<<"A">>, <<"B">>, <<"A", "B">>}

SetRankingLists == DistinctSeqs(SetBundles, MaxRankLen)

\* rankings in which no item occurs in two bundles
DisjointRankingLists ==
    {r \in DistinctSeqs(SetBundles, Cardinality(SmallItems)) :
        \A p, q \in 1..Len(r) : p /= q => Range(r[p]) \cap Range(r[q]) = {}}

\* tables that value every item, inserted in the order A, B
OrderedFullTables ==
    {<<[k |-> "A", v |-> x], [k |-> "B", v |-> y]>> : x, y \in 0..MaxVal}

\* a bundle handed to total_value: items may repeat
AnyBundles == UNION {[1..l -> SmallItems] : l \in 0..2}

\* a held bundle of an allocation handed to a checker
HeldBundles == DistinctSeqs(SmallItems, Cardinality(SmallItems))

\* the instance of the docstrings and of tests/Ex4_test.py
CanonicalItems ==
    [a \in Range(AgentNames) |->
        CASE a = "Alice"   -> <<[k |-> "A", v |-> 40], [k |-> "B", v |-> 35],
                                [k |-> "C", v |-> 25]>>
          [] a = "Bob"     -> <<[k |-> "A", v |-> 35], [k |-> "B", v |-> 40],
                                [k |-> "C", v |-> 25]>>
          [] a = "Charlie" -> <<[k |-> "A", v |-> 40], [k |-> "B", v |-> 25],
                                [k |-> "C", v |-> 35]>>]

CanonicalRankings ==
    [a \in Range(AgentNames) |->
        CASE a = "Alice"   -> << <<"A">>, <<"B">>, <<"C">> >>
          [] a = "Bob"     -> << <<"B">>, <<"A">>, <<"C">> >>
          [] a = "Charlie" -> << <<"A">>, <<"C">>, <<"B">> >>]

CanonicalAllocation ==
    [a \in Range(AgentNames) |->
        CASE a = "Alice"   -> <<"A">>
          [] a = "Bob"     -> <<"B">>
          [] a = "Charlie" -> <<"C">>]

\* allocations in which every item is held by at most one agent
Partitions(ags) ==
    {[a \in Range(ags) |->
         SelectSeq(<<"A", "B">>, LAMBDA x : owner[x] = a)] :
       owner \in [SmallItems -> Range(ags) \cup {"nobody"}]}

\* the allocations handed to a checker
Allocations(ags) ==
    IF Len(ags) = 2 THEN [Range(ags) -> HeldBundles]
    ELSE Partitions(ags) \cup {[a \in Range(ags) |-> <<"A", "B">>],
                                CanonicalAllocation}

-----------------------------------------------------------------------------
(* Python dict and list primitives. *)

Keys(t) == {t[j].k : j \in 1..Len(t)}

HasKey(t, key) == \E j \in 1..Len(t) : t[j].k = key

\* t[key] for a key that is present
Get(t, key) == t[CHOOSE j \in 1..Len(t) : t[j].k = key].v

\* position of key in insertion order
KeyPos(t, key) == CHOOSE j \in 1..Len(t) : t[j].k = key

RECURSIVE SumSeq(_)
SumSeq(s) == IF s = <<>> THEN 0 ELSE Head(s) + SumSeq(Tail(s))

\* sum(d.values())
SumValues(t) == SumSeq([j \in 1..Len(t) |-> t[j].v])

\* list.remove(x): drops the first occurrence
RemoveFirst(s, x) ==
    LET p == CHOOSE j \in 1..Len(s) : s[j] = x /\ \A q \in 1..(j - 1) : s[q] /= x
    IN  [j \in 1..(Len(s) - 1) |-> IF j < p THEN s[j] ELSE s[j + 1]]

\* the least element of a non-empty set of integers
Least(S) == CHOOSE x \in S : \A y \in S : x <= y

EmptyAllocation(ags) == [a \in Range(ags) |-> <<>>]

NoRet == [exc |-> "none", val |-> 0]

-----------------------------------------------------------------------------
(* get_ranking_index and the membership tests. *)

\* enumerate() counts from 0; float('inf') when no bundle holds the item
get_ranking_index(ranking_list, item) ==
    LET hits == {j \in 1..Len(ranking_list) : item \in Range(ranking_list[j])}
    IN  IF hits = {} THEN Inf ELSE Least(hits) - 1

\* Python objects as compared by ==: a str and a list are never equal
StrObj(item) == [type |-> "str", val |-> <<item>>]

ListObj(b) == [type |-> "list", val |-> b]

PyEq(x, y) == x.type = y.type /\ x.val = y.val

\* membership in the flattened ranking: item found inside some bundle
InRankingDeep(item, ranking_list) ==
    \E j \in 1..Len(ranking_list) : item \in Range(ranking_list[j])

\* "item in rankings[agent]": item compared with each element of the list of
\* bundles
InRanking(item, ranking_list) ==
    \E j \in 1..Len(ranking_list) : PyEq(StrObj(item), ListObj(ranking_list[j]))

-----------------------------------------------------------------------------
(* sorted(): a stable sort, also under reverse=True. *)

\* s with x put behind every element that does not sort strictly after it
StableInsert(s, x, key, reverse) ==
    LET after == {j \in 1..Len(s) :
                     IF reverse THEN key[s[j]] < key[x] ELSE key[s[j]] > key[x]}
        p == IF after = {} THEN Len(s) + 1 ELSE Least(after)
    IN  SubSeq(s, 1, p - 1) \o <<x>> \o SubSeq(s, p, Len(s))

RECURSIVE StableSort(_, _, _)
StableSort(s, key, reverse) ==
    IF s = <<>> THEN <<>>
    ELSE StableInsert(StableSort(SubSeq(s, 1, Len(s) - 1), key, reverse),
                      s[Len(s)], key, reverse)

Reverse(s) == [j \in 1..Len(s) |-> s[Len(s) + 1 - j]]

\* sorted(s, key=...)[::-1] in place of sorted(s, key=..., reverse=True)
SortedThenReversed(s, key, reverse) ==
    IF reverse THEN Reverse(StableSort(s, key, FALSE)) ELSE StableSort(s, key, FALSE)

\* sorted(s, key=key, reverse=reverse)
Sorted(s, key, reverse) == StableSort(s, key, reverse)

-----------------------------------------------------------------------------
(* find_proportional_allocation *)

\* the (item, count) pairs the comprehension of line 43 walks through:
\* items.values() in the key order of items, each table in insertion order
RECURSIVE AllEntries(_, _)
AllEntries(its, order) ==
    IF order = <<>> THEN <<>>
    ELSE its[Head(order)] \o AllEntries(its, Tail(order))

\* a dict built from pairs: a later pair overwrites an earlier one
DictOf(pairs) ==
    [key \in {pairs[j].k : j \in 1..Len(pairs)} |->
        pairs[CHOOSE j \in 1..Len(pairs) :
                 /\ pairs[j].k = key
                 /\ \A q \in (j + 1)..Len(pairs) : pairs[q].k /= key].v]

\* line 43
RemainingItems(its, order) == DictOf(AllEntries(its, order))

\* line 47
SortedAgents(ags, its) ==
    Sorted(ags, [a \in Range(ags) |-> SumValues(its[a])], TRUE)

\* line 51
SortedItems(agent, its, rks) ==
    Sorted([j \in 1..Len(its[agent]) |-> its[agent][j].k],
           [item \in Keys(its[agent]) |-> get_ranking_index(rks[agent], item)],
           FALSE)

\* lines 166-172
causes_envy(agent, item, alloc, rks) ==
    \E other_agent \in DOMAIN alloc :
        /\ other_agent /= agent
        /\ alloc[other_agent] /= <<>>
        /\ InRanking(item, rks[other_agent])
        /\ InRanking(item, rks[agent])
        /\ get_ranking_index(rks[other_agent], item)
               < get_ranking_index(rks[agent], item)

\* line 55 with the allocated-set test left out
AvailableByCountOnly(item, remaining, allocated) == remaining[item] > 0

\* line 55
Available(item, remaining, allocated) ==
    remaining[item] > 0 /\ item \notin allocated

\* positions of sorted_items that reach the call of causes_envy
Probed(si, remaining, allocated) ==
    {j \in 1..Len(si) : Available(si[j], remaining, allocated)}

\* position of the item the inner loop breaks at, 0 when it runs to the end
PickPos(agent, si, remaining, allocated, alloc, rks) ==
    LET ok == {j \in Probed(si, remaining, allocated) :
                  ~causes_envy(agent, si[j], alloc, rks)}
    IN  IF ok = {} THEN 0 ELSE Least(ok)

\* the inner loop of lines 53-61 without its break: every item that passes
\* the tests is appended
PicksWithoutBreak(agent, si, remaining, allocated, alloc, rks) ==
    SelectSeq(si, LAMBDA item : /\ Available(item, remaining, allocated)
                                /\ ~causes_envy(agent, item, alloc, rks))

\* the items the inner loop of lines 53-61 appends to allocation[agent]
Picks(agent, si, remaining, allocated, alloc, rks) ==
    LET p == PickPos(agent, si, remaining, allocated, alloc, rks)
    IN  IF p = 0 THEN <<>> ELSE <<si[p]>>

\* the results of the calls of causes_envy the inner loop makes
ProbeResults(agent, si, remaining, allocated, alloc, rks) ==
    LET p == PickPos(agent, si, remaining, allocated, alloc, rks)
    IN  {causes_envy(agent, si[j], alloc, rks) :
            j \in {q \in Probed(si, remaining, allocated) : p = 0 \/ q <= p}}

PropInputs ==
    \/ /\ agents = TwoAgents
       /\ items \in [Range(TwoAgents) -> Tables]
       /\ items_keys = TwoAgents
       /\ rankings \in [Range(TwoAgents) -> DisjointRankingLists]
    \/ /\ agents = TwoAgents
       /\ items \in [Range(TwoAgents) -> OrderedFullTables]
       /\ items_keys = TwoAgents
       /\ rankings \in [Range(TwoAgents) -> SetRankingLists]
    \/ /\ agents = AgentNames
       /\ items = CanonicalItems
       /\ items_keys = AgentNames
       /\ rankings = CanonicalRankings

InitProp ==
    /\ call = "find_proportional_allocation"
    /\ pc = "start"
    /\ PropInputs
    /\ allocation = EmptyAllocation(agents)
    /\ bundle = <<>>
    /\ player = agents[1]
    /\ remaining_items = <<>>
    /\ allocated_items = {}
    /\ assigned_items = {}
    /\ sorted_agents = <<>>
    /\ sorted_items = <<>>
    /\ probes = {}
    /\ n = 0
    /\ ret = NoRet

\* lines 38-47
PropStart ==
    /\ call = "find_proportional_allocation"
    /\ pc = "start"
    /\ allocation' = EmptyAllocation(agents)
    /\ remaining_items' = RemainingItems(items, items_keys)
    /\ allocated_items' = {}
    /\ sorted_agents' = SortedAgents(agents, items)
    /\ n' = 0
    /\ pc' = "loop"
    /\ UNCHANGED <<call, agents, items, items_keys, rankings, bundle, player,
                   assigned_items, sorted_items, probes, ret>>

\* one iteration of "for agent in sorted_agents" (lines 49-61)
PropServe ==
    /\ call = "find_proportional_allocation"
    /\ pc = "loop"
    /\ n < Len(sorted_agents)
    /\ LET agent == sorted_agents[n + 1]
           si == SortedItems(agent, items, rankings)
           got == Picks(agent, si, remaining_items, allocated_items,
                        allocation, rankings)
       IN  /\ sorted_items' = si
           /\ probes' = ProbeResults(agent, si, remaining_items,
                                     allocated_items, allocation, rankings)
           /\ allocation' = [allocation EXCEPT ![agent] = @ \o got]
           /\ allocated_items' = allocated_items \cup Range(got)
           /\ remaining_items' =
                 [item \in DOMAIN remaining_items |->
                     IF item \in Range(got) THEN remaining_items[item] - 1
                     ELSE remaining_items[item]]
    /\ n' = n + 1
    /\ UNCHANGED <<call, pc, agents, items, items_keys, rankings, bundle,
                   player, assigned_items, sorted_agents, ret>>

\* line 63
PropReturn ==
    /\ call = "find_proportional_allocation"
    /\ pc = "loop"
    /\ n = Len(sorted_agents)
    /\ pc' = "done"
    /\ ret' = [exc |-> "none", val |-> allocation]
    /\ UNCHANGED <<call, agents, items, items_keys, rankings, allocation,
                   bundle, player, remaining_items, allocated_items,
                   assigned_items, sorted_agents, sorted_items, probes, n>>

NextProp == PropStart \/ PropServe \/ PropReturn

SpecProp == InitProp /\ [][NextProp]_vars

-----------------------------------------------------------------------------
(* allocate_minimal_bundles *)

\* any(item not in assigned_items for item in bundle)
BundleFreeAny(b, assigned) == \E j \in 1..Len(b) : b[j] \notin assigned

\* all(item not in assigned_items for item in bundle)
BundleFree(b, assigned) == \A j \in 1..Len(b) : b[j] \notin assigned

\* index of the bundle the inner loop stops at, 0 when it runs to the end
FirstFreeBundle(ranking_list, assigned) ==
    LET free == {j \in 1..Len(ranking_list) : BundleFree(ranking_list[j], assigned)}
    IN  IF free = {} THEN 0 ELSE Least(free)

InitMin ==
    /\ call = "allocate_minimal_bundles"
    /\ pc = "start"
    /\ \/ /\ agents = AgentNames
          /\ rankings \in [Range(AgentNames) -> RankingLists]
          /\ items = [a \in Range(AgentNames) |-> <<>>]
       \/ /\ agents = AgentNames
          /\ rankings = CanonicalRankings
          /\ items = CanonicalItems
    /\ items_keys = agents
    /\ allocation = EmptyAllocation(agents)
    /\ bundle = <<>>
    /\ player = agents[1]
    /\ remaining_items = <<>>
    /\ allocated_items = {}
    /\ assigned_items = {}
    /\ sorted_agents = <<>>
    /\ sorted_items = <<>>
    /\ probes = {}
    /\ n = 0
    /\ ret = NoRet

\* lines 93-97
MinStart ==
    /\ call = "allocate_minimal_bundles"
    /\ pc = "start"
    /\ allocation' = EmptyAllocation(agents)
    /\ assigned_items' = {}
    /\ n' = 0
    /\ pc' = "loop"
    /\ UNCHANGED <<call, agents, items, items_keys, rankings, bundle, player,
                   remaining_items, allocated_items, sorted_agents,
                   sorted_items, probes, ret>>

\* one iteration of "for agent in agents" (lines 99-104)
MinServe ==
    /\ call = "allocate_minimal_bundles"
    /\ pc = "loop"
    /\ n < Len(agents)
    /\ LET agent == agents[n + 1]
           j == FirstFreeBundle(rankings[agent], assigned_items)
       IN  IF j = 0
           THEN UNCHANGED <<allocation, assigned_items>>
           ELSE /\ allocation' =
                      [allocation EXCEPT ![agent] = @ \o rankings[agent][j]]
                /\ assigned_items' =
                      assigned_items \cup Range(rankings[agent][j])
    /\ n' = n + 1
    /\ UNCHANGED <<call, pc, agents, items, items_keys, rankings, bundle,
                   player, remaining_items, allocated_items, sorted_agents,
                   sorted_items, probes, ret>>

\* line 106
MinReturn ==
    /\ call = "allocate_minimal_bundles"
    /\ pc = "loop"
    /\ n = Len(agents)
    /\ pc' = "done"
    /\ ret' = [exc |-> "none", val |-> allocation]
    /\ UNCHANGED <<call, agents, items, items_keys, rankings, allocation,
                   bundle, player, remaining_items, allocated_items,
                   assigned_items, sorted_agents, sorted_items, probes, n>>

NextMin == MinStart \/ MinServe \/ MinReturn

SpecMin == InitMin /\ [][NextMin]_vars

-----------------------------------------------------------------------------
(* total_value *)

KeyError == [exc |-> "KeyError", val |-> 0]

Returned(x) == [exc |-> "none", val |-> x]

\* sum(t.get(item, 0) for item in b)
TableSumDefaultZero(t, b) ==
    Returned(SumSeq([j \in 1..Len(b) |-> IF HasKey(t, b[j]) THEN Get(t, b[j]) ELSE 0]))

\* sum(t[item] for item in b): the first missing key raises
TableSum(t, b) ==
    IF \E j \in 1..Len(b) : ~HasKey(t, b[j])
    THEN KeyError
    ELSE Returned(SumSeq([j \in 1..Len(b) |-> Get(t, b[j])]))

\* lines 198-202
total_value(b, p, its) == TableSum(its[p], b)

IdleLocals ==
    /\ remaining_items = <<>>
    /\ allocated_items = {}
    /\ assigned_items = {}
    /\ sorted_agents = <<>>
    /\ sorted_items = <<>>
    /\ probes = {}
    /\ n = 0
    /\ ret = NoRet

InitValue ==
    /\ call = "total_value"
    /\ pc = "start"
    /\ agents = TwoAgents
    /\ items \in [Range(TwoAgents) -> Tables]
    /\ items_keys = agents
    /\ rankings = [a \in Range(agents) |-> <<>>]
    /\ allocation = EmptyAllocation(agents)
    /\ bundle = <<>>
    /\ player = agents[1]
    /\ IdleLocals

\* a call total_value({"bundle": b, "player": p, "items": items})
CallTotalValue ==
    /\ call = "total_value"
    /\ pc = "start"
    /\ \E b \in AnyBundles, p \in Range(agents) :
          /\ bundle' = b
          /\ player' = p
          /\ ret' = total_value(b, p, items)
    /\ pc' = "done"
    /\ UNCHANGED <<call, agents, items, items_keys, rankings, allocation,
                   remaining_items, allocated_items, assigned_items,
                   sorted_agents, sorted_items, probes, n>>

NextValue == CallTotalValue

SpecValue == InitValue /\ [][NextValue]_vars

-----------------------------------------------------------------------------
(* is_envy_free *)

\* what one pass of the body of the two loops (lines 241-248) does for the
\* pair (agent, other_agent): raise, return False, or go on
EnvyPair(agent, other_agent, alloc, its, rks) ==
    LET theirs == total_value(alloc[other_agent], other_agent, its)
        mine == total_value(alloc[agent], agent, its)
    IN  IF theirs.exc /= "none" \/ mine.exc /= "none" THEN "KeyError"
        ELSE IF /\ theirs.val > mine.val
                /\ \E j \in 1..Len(alloc[other_agent]) :
                      LET item == alloc[other_agent][j]
                      IN  /\ InRanking(item, rks[agent])
                          /\ get_ranking_index(rks[agent], item)
                                 < get_ranking_index(rks[other_agent], item)
             THEN "False"
             ELSE "continue"

\* lines 233-249
is_envy_free(alloc, ags, its, rks) ==
    LET N == Len(ags)
        pos(i, j) == (i - 1) * N + j
        stops == {q \in {pos(i, j) : i, j \in 1..N} :
                     \E i, j \in 1..N :
                        /\ q = pos(i, j)
                        /\ ags[j] /= ags[i]
                        /\ EnvyPair(ags[i], ags[j], alloc, its, rks) /= "continue"}
    IN  IF stops = {} THEN Returned(TRUE)
        ELSE LET q == Least(stops)
                 i == ((q - 1) \div N) + 1
                 j == ((q - 1) % N) + 1
             IN  IF EnvyPair(ags[i], ags[j], alloc, its, rks) = "KeyError"
                 THEN KeyError
                 ELSE Returned(FALSE)

InitEnvy ==
    /\ call = "is_envy_free"
    /\ pc = "start"
    /\ \/ /\ agents = TwoAgents
          /\ items \in [Range(TwoAgents) -> OrderedFullTables]
          /\ rankings \in [Range(TwoAgents) -> SetRankingLists]
       \/ /\ agents = AgentNames
          /\ items = CanonicalItems
          /\ rankings = CanonicalRankings
    /\ items_keys = agents
    /\ allocation = EmptyAllocation(agents)
    /\ bundle = <<>>
    /\ player = agents[1]
    /\ IdleLocals

\* a call is_envy_free({"allocation": alloc, "agents": ..., "items": ...,
\* "rankings": ...})
CallEnvyFree ==
    /\ call = "is_envy_free"
    /\ pc = "start"
    /\ \E alloc \in Allocations(agents) :
          /\ allocation' = alloc
          /\ ret' = is_envy_free(alloc, agents, items, rankings)
    /\ pc' = "done"
    /\ UNCHANGED <<call, agents, items, items_keys, rankings, bundle, player,
                   remaining_items, allocated_items, assigned_items,
                   sorted_agents, sorted_items, probes, n>>

NextEnvy == CallEnvyFree

SpecEnvy == InitEnvy /\ [][NextEnvy]_vars

-----------------------------------------------------------------------------
(* is_pareto_optimal *)

\* line 280 and line 289: every agent's sum over the bundle it holds
Utilities(alloc, ags, its) == [a \in Range(ags) |-> TableSum(its[a], alloc[a])]

\* lines 286-288 without the remove
MoveItemWithoutRemove(alloc, agent, item, other_agent) ==
    [alloc EXCEPT ![other_agent] = Append(@, item)]

\* lines 286-288
MoveItem(alloc, agent, item, other_agent) ==
    [alloc EXCEPT ![agent] = RemoveFirst(@, item),
                  ![other_agent] = Append(@, item)]

\* lines 291-293 with >= in place of >
ImprovesWeakly(new, cur, other_agent, ags) ==
    /\ new[other_agent].val >= cur[other_agent].val
    /\ \A a \in Range(ags) : a /= other_agent => new[a].val >= cur[a].val

\* lines 291-293
Improves(new, cur, other_agent, ags) ==
    /\ new[other_agent].val > cur[other_agent].val
    /\ \A a \in Range(ags) : a /= other_agent => new[a].val >= cur[a].val

\* what one pass of the body of the three loops (lines 285-294) does: raise,
\* return False, or go on
ParetoTrial(agent, item, other_agent, alloc, ags, its, current_utilities) ==
    IF ~(other_agent /= agent /\ item \in Range(alloc[agent])) THEN "continue"
    ELSE LET new_allocation == MoveItem(alloc, agent, item, other_agent)
             new_utilities == Utilities(new_allocation, ags, its)
         IN  IF \E a \in Range(ags) : new_utilities[a].exc /= "none"
             THEN "KeyError"
             ELSE IF Improves(new_utilities, current_utilities, other_agent, ags)
                  THEN "False"
                  ELSE "continue"

\* the loops of lines 282-284 from position (i, j, o) on: agent i of agents,
\* key j of items[agent], other agent o
RECURSIVE ParetoScan(_, _, _, _, _, _, _)
ParetoScan(i, j, o, alloc, ags, its, current_utilities) ==
    IF i > Len(ags) THEN Returned(TRUE)
    ELSE IF j > Len(its[ags[i]])
         THEN ParetoScan(i + 1, 1, 1, alloc, ags, its, current_utilities)
    ELSE IF o > Len(ags)
         THEN ParetoScan(i, j + 1, 1, alloc, ags, its, current_utilities)
    ELSE LET out == ParetoTrial(ags[i], its[ags[i]][j].k, ags[o], alloc, ags,
                                its, current_utilities)
         IN  IF out = "KeyError" THEN KeyError
             ELSE IF out = "False" THEN Returned(FALSE)
             ELSE ParetoScan(i, j, o + 1, alloc, ags, its, current_utilities)

\* lines 276-295
is_pareto_optimal(alloc, ags, its) ==
    LET current_utilities == Utilities(alloc, ags, its)
    IN  IF \E a \in Range(ags) : current_utilities[a].exc /= "none"
        THEN KeyError
        ELSE ParetoScan(1, 1, 1, alloc, ags, its, current_utilities)

InitPareto ==
    /\ call = "is_pareto_optimal"
    /\ pc = "start"
    /\ \/ /\ agents = AgentNames
          /\ items \in [Range(AgentNames) -> OrderedFullTables]
       \/ /\ agents = TwoAgents
          /\ items \in [Range(TwoAgents) -> Tables]
       \/ /\ agents = AgentNames
          /\ items = CanonicalItems
    /\ items_keys = agents
    /\ rankings = [a \in Range(agents) |-> <<>>]
    /\ allocation = EmptyAllocation(agents)
    /\ bundle = <<>>
    /\ player = agents[1]
    /\ IdleLocals

\* a call is_pareto_optimal({"allocation": alloc, "agents": ..., "items": ...})
CallParetoOptimal ==
    /\ call = "is_pareto_optimal"
    /\ pc = "start"
    /\ \E alloc \in Allocations(agents) :
          /\ allocation' = alloc
          /\ ret' = is_pareto_optimal(alloc, agents, items)
    /\ pc' = "done"
    /\ UNCHANGED <<call, agents, items, items_keys, rankings, bundle, player,
                   remaining_items, allocated_items, assigned_items,
                   sorted_agents, sorted_items, probes, n>>

NextPareto == CallParetoOptimal

SpecPareto == InitPareto /\ [][NextPareto]_vars

-----------------------------------------------------------------------------
(* Either allocator, called once. *)

InitAlloc == InitProp \/ InitMin

NextAlloc == NextProp \/ NextMin

SpecAlloc == InitAlloc /\ [][NextAlloc]_vars

-----------------------------------------------------------------------------
(* Properties. *)

Held(alloc, a) == Range(alloc[a])

IsCanonical == agents = AgentNames /\ items = CanonicalItems
                  /\ rankings = CanonicalRankings

IsPermutation(s, t) ==
    /\ Len(s) = Len(t)
    /\ Range(s) = Range(t)
    /\ \A p, q \in 1..Len(s) : p /= q => s[p] /= s[q]

\* position of an agent in the instance's agent list
AgentPos(a) == CHOOSE j \in 1..Len(agents) : agents[j] = a

\* an agent's total over its own valuation table
RECURSIVE TotalOver(_, _)
TotalOver(t, ks) ==
    IF ks = {} THEN 0
    ELSE LET key == CHOOSE x \in ks : TRUE
         IN  Get(t, key) + TotalOver(t, ks \ {key})

Total(a) == TotalOver(items[a], Keys(items[a]))

\* C1: in every state of a call of find_proportional_allocation or of
\* allocate_minimal_bundles, so after each agent served and in the returned
\* allocation, no item is in the bundles of two different agents.
C1_NoItemInTwoBundles ==
    /\ \A a, b \in DOMAIN allocation :
          a /= b => Held(allocation, a) \cap Held(allocation, b) = {}
    /\ pc = "done" => ret.val = allocation

\* two agents were served, both hold something, and the later one top-ranks
\* the item the earlier one took
C1_Witness ==
    /\ pc = "loop"
    /\ n >= 2
    /\ \E a, b \in DOMAIN allocation :
          /\ a /= b
          /\ allocation[a] /= <<>>
          /\ allocation[b] /= <<>>
          /\ \E x \in Held(allocation, a) : get_ranking_index(rankings[b], x) = 0

\* C2: the mapping find_proportional_allocation builds and returns has
\* exactly the instance's agents as keys and every bundle has at most one
\* item; an agent that found no eligible item is there with the empty bundle.
C2_EveryAgentAtMostOneItem ==
    /\ DOMAIN allocation = Range(agents)
    /\ \A a \in Range(agents) : Len(allocation[a]) <= 1
    /\ pc = "done" =>
          /\ ret.exc = "none"
          /\ DOMAIN ret.val = Range(agents)
          /\ \A a \in Range(agents) : Len(ret.val[a]) <= 1

\* the call returned, one agent holds an item and another, who values items,
\* is in the result with the empty bundle
C2_Witness ==
    /\ call = "find_proportional_allocation"
    /\ pc = "done"
    /\ \E a, b \in Range(agents) :
          /\ Len(ret.val[a]) = 1
          /\ items[b] /= <<>>
          /\ ret.val[b] = <<>>

\* C3: the agents are served in the order of a stable sort of the agent list
\* by descending total of the agent's own table (larger total first, equal
\* totals in instance order), only agents already served hold anything, and
\* the items an agent tries are its table's keys by ascending ranking index,
\* unranked ones last, equal indices in insertion order; the canonical
\* instance yields Alice:[A], Bob:[B], Charlie:[C].
C3_PickOrder ==
    /\ pc /= "start" =>
          /\ IsPermutation(sorted_agents, agents)
          /\ \A p, q \in 1..Len(sorted_agents) :
                p < q =>
                   /\ Total(sorted_agents[p]) >= Total(sorted_agents[q])
                   /\ Total(sorted_agents[p]) = Total(sorted_agents[q])
                         => AgentPos(sorted_agents[p]) < AgentPos(sorted_agents[q])
          /\ \A q \in (n + 1)..Len(sorted_agents) :
                allocation[sorted_agents[q]] = <<>>
    /\ (pc /= "start" /\ n >= 1) =>
          LET agent == sorted_agents[n]
              t == items[agent]
              index(x) == get_ranking_index(rankings[agent], x)
          IN  /\ IsPermutation(sorted_items, [j \in 1..Len(t) |-> t[j].k])
              /\ \A p, q \in 1..Len(sorted_items) :
                    p < q =>
                       /\ index(sorted_items[p]) <= index(sorted_items[q])
                       /\ index(sorted_items[p]) = Inf => index(sorted_items[q]) = Inf
                       /\ index(sorted_items[p]) = index(sorted_items[q])
                             => KeyPos(t, sorted_items[p]) < KeyPos(t, sorted_items[q])
              /\ allocation[agent] /= <<>> =>
                    \E p \in 1..Len(sorted_items) : allocation[agent] = <<sorted_items[p]>>
    /\ (pc = "done" /\ IsCanonical) => ret.val = CanonicalAllocation

\* two agents with equal totals were served in instance order, and the second
\* one tried two equally ranked items in insertion order B, A
C3_Witness ==
    /\ pc = "loop"
    /\ n = 2
    /\ agents = TwoAgents
    /\ Total("Alice") = Total("Bob")
    /\ Total("Alice") > 0
    /\ sorted_agents = TwoAgents
    /\ sorted_items = <<"B", "A">>
    /\ get_ranking_index(rankings["Bob"], "A") = get_ranking_index(rankings["Bob"], "B")

\* C4: after the first n agents of the instance were served by
\* allocate_minimal_bundles, each of them holds exactly the first bundle of
\* its ranking that shares no item with the bundles of the agents before it
\* (the empty bundle when there is none), the agents not yet served hold
\* nothing, and the first agent holds its top-ranked bundle; the canonical
\* instance yields Alice:[A], Bob:[B], Charlie:[C].
C4_GreedyFirstFit ==
    /\ pc /= "start" =>
          /\ \A q \in 1..n :
                LET a == agents[q]
                    earlier == UNION {Held(allocation, agents[m]) : m \in 1..(q - 1)}
                    free == {j \in 1..Len(rankings[a]) :
                                Range(rankings[a][j]) \cap earlier = {}}
                IN  IF free = {} THEN allocation[a] = <<>>
                    ELSE allocation[a] = rankings[a][Least(free)]
          /\ \A q \in (n + 1)..Len(agents) : allocation[agents[q]] = <<>>
          /\ (n >= 1 /\ rankings[agents[1]] /= <<>>)
                => allocation[agents[1]] = rankings[agents[1]][1]
    /\ pc = "done" => ret.val = allocation
    /\ (pc = "done" /\ IsCanonical) => ret.val = CanonicalAllocation

\* the call returned; one agent got its second bundle because its first was
\* blocked, and another got nothing although it ranks bundles
C4_Witness ==
    /\ call = "allocate_minimal_bundles"
    /\ pc = "done"
    /\ \E a, b \in Range(agents) :
          /\ Len(rankings[a]) >= 2
          /\ ret.val[a] = rankings[a][2]
          /\ rankings[b] /= <<>>
          /\ ret.val[b] = <<>>

\* the value of a bundle to a player: the sum of the player's
\* values over the bundle, each occurrence counted
ValueOf(t, b) ==
    LET count(x) == Cardinality({j \in 1..Len(b) : b[j] = x})
        weighted == [x \in Range(b) |-> count(x) * Get(t, x)]
        RECURSIVE Add(_)
        Add(S) == IF S = {} THEN 0
                  ELSE LET x == CHOOSE y \in S : TRUE
                       IN  weighted[x] + Add(S \ {x})
    IN  Add(Range(b))

\* C5: is_envy_free returns False exactly when for some ordered pair of
\* distinct agents (a, b), b's value of b's bundle exceeds a's value of a's
\* bundle and some item b holds is in a bundle of a's ranking and has a
\* strictly lower ranking index for a than for b.
C5_EnvyFreeExact ==
    (call = "is_envy_free" /\ pc = "done" /\ ret.exc = "none") =>
        (ret.val = FALSE <=>
            \E a, b \in Range(agents) :
                /\ a /= b
                /\ ValueOf(items[b], allocation[b]) > ValueOf(items[a], allocation[a])
                /\ \E x \in Held(allocation, b) :
                      /\ get_ranking_index(rankings[a], x) /= Inf
                      /\ get_ranking_index(rankings[a], x)
                             < get_ranking_index(rankings[b], x))

\* the utilities after moving one copy of x from h to r are defined
MoveDefined(h, x, r) == HasKey(items[r], x)

\* moving the single item x from h to r raises r's utility and lowers no
\* one's: h loses x's value, r gains it, the others keep theirs
MoveImproves(h, x, r) ==
    LET before == [a \in Range(agents) |-> ValueOf(items[a], allocation[a])]
        after == [a \in Range(agents) |->
                     before[a] - (IF a = h THEN Get(items[h], x) ELSE 0)
                               + (IF a = r THEN Get(items[r], x) ELSE 0)]
    IN  /\ after[r] > before[r]
        /\ \A a \in Range(agents) : after[a] >= before[a]

\* C6: is_pareto_optimal returns False exactly when some agent h holds an
\* item x and some other agent r is such that moving x from h to r strictly
\* raises r's utility and leaves no agent's utility below its original value;
\* otherwise it returns True.
C6_ParetoExact ==
    (call = "is_pareto_optimal" /\ pc = "done" /\ ret.exc = "none") =>
        /\ ret.val \in BOOLEAN
        /\ ret.val = FALSE <=>
              \E h, r \in Range(agents) :
                 /\ h /= r
                 /\ \E x \in Held(allocation, h) :
                       MoveDefined(h, x, r) /\ MoveImproves(h, x, r)

\* the checker returned False for three agents, and the item that can move
\* is worth nothing to its holder and something to a third agent only
C6_Witness ==
    /\ call = "is_pareto_optimal"
    /\ pc = "done"
    /\ ret.exc = "none"
    /\ ret.val = FALSE
    /\ agents = AgentNames
    /\ allocation["Alice"] = <<"A">>
    /\ Get(items["Alice"], "A") = 0
    /\ Get(items["Bob"], "A") = 0
    /\ Get(items["Charlie"], "A") > 0

\* C7: every item starts with remaining_items[item] > 0 whatever the
\* valuations, so an agent ends a turn empty-handed only if every item it
\* values is already allocated or triggers the envy probe.
C7_UnitsNeverLacking ==
    (call = "find_proportional_allocation" /\ pc = "loop") =>
        /\ n = 0 => \A x \in DOMAIN remaining_items : remaining_items[x] > 0
        /\ n >= 1 =>
              LET agent == sorted_agents[n]
              IN  allocation[agent] = <<>> =>
                     \A x \in Keys(items[agent]) :
                        \/ x \in allocated_items
                        \/ causes_envy(agent, x, allocation, rankings)

\* C8: total_value raises whenever some item of the bundle has no entry in
\* the player's table, and otherwise returns the sum of the player's values
\* over the bundle, 0 for the empty bundle.
C8_TotalValue ==
    (call = "total_value" /\ pc = "done") =>
        IF \E j \in 1..Len(bundle) : bundle[j] \notin Keys(items[player])
        THEN ret.exc = "KeyError"
        ELSE /\ ret.exc = "none"
             /\ ret.val = ValueOf(items[player], bundle)
             /\ bundle = <<>> => ret.val = 0

\* the call raised on a bundle whose first item the player values above 0
C8_Witness ==
    /\ call = "total_value"
    /\ pc = "done"
    /\ ret.exc = "KeyError"
    /\ Len(bundle) = 2
    /\ HasKey(items[player], bundle[1])
    /\ Get(items[player], bundle[1]) > 0
    /\ ~HasKey(items[player], bundle[2])

\* find_proportional_allocation with the call of causes_envy taken out:
\* the agents from position q of the order on
RECURSIVE WithoutEnvyCheck(_, _, _, _, _)
WithoutEnvyCheck(q, order, alloc, remaining, allocated) ==
    IF q > Len(order) THEN alloc
    ELSE LET agent == order[q]
             si == SortedItems(agent, items, rankings)
             ok == {j \in 1..Len(si) : remaining[si[j]] > 0 /\ si[j] \notin allocated}
         IN  IF ok = {}
             THEN WithoutEnvyCheck(q + 1, order, alloc, remaining, allocated)
             ELSE LET x == si[Least(ok)]
                  IN  WithoutEnvyCheck(q + 1, order,
                                       [alloc EXCEPT ![agent] = Append(@, x)],
                                       [remaining EXCEPT ![x] = @ - 1],
                                       allocated \cup {x})

\* C9: every call of causes_envy made by find_proportional_allocation
\* returns False, the result equals that of the algorithm without the envy
\* check, and an agent ends its turn empty-handed only when none of its items
\* is available.
C9_EnvyProbeNeverFires ==
    call = "find_proportional_allocation" =>
        /\ TRUE \notin probes
        /\ (pc = "loop" /\ n >= 1) =>
              LET agent == sorted_agents[n]
              IN  allocation[agent] = <<>> =>
                     \A x \in Keys(items[agent]) :
                        ~(remaining_items[x] > 0 /\ x \notin allocated_items)
        /\ pc = "done" =>
              ret.val = WithoutEnvyCheck(1, SortedAgents(agents, items),
                                         EmptyAllocation(agents),
                                         RemainingItems(items, items_keys), {})

\* the second agent served was given an item that the first, who holds
\* something, ranks strictly better than the second does; the probe was
\* called and said no
C9_Witness ==
    /\ call = "find_proportional_allocation"
    /\ pc = "loop"
    /\ n = 2
    /\ probes = {FALSE}
    /\ LET first == sorted_agents[1]
           second == sorted_agents[2]
       IN  /\ allocation[first] /= <<>>
           /\ allocation[second] /= <<>>
           /\ get_ranking_index(rankings[first], allocation[second][1])
                  < get_ranking_index(rankings[second], allocation[second][1])
           /\ get_ranking_index(rankings[second], allocation[second][1]) /= Inf

\* every agent has a value for every item of the instance and of the
\* allocation
EveryItemValued ==
    LET all == UNION ({Keys(items[a]) : a \in Range(agents)}
                         \cup {Held(allocation, a) : a \in Range(agents)})
    IN  \A a \in Range(agents) : Keys(items[a]) = all

\* C10: with non-negative valuations and a value of every agent for every
\* item, is_pareto_optimal returns False if and only if some agent holds an
\* item it values at exactly 0 that another agent values above 0; with all
\* valuations strictly positive it returns True.
C10_ParetoZeroValued ==
    (call = "is_pareto_optimal" /\ pc = "done" /\ EveryItemValued) =>
        /\ ret.exc = "none"
        /\ ret.val = FALSE <=>
              \E h, r \in Range(agents) :
                 /\ h /= r
                 /\ \E x \in Held(allocation, h) :
                       Get(items[h], x) = 0 /\ Get(items[r], x) > 0
        /\ (\A a \in Range(agents) : \A j \in 1..Len(items[a]) : items[a][j].v > 0)
              => ret.val = TRUE

\* all valuations are strictly positive, an agent holds an item another agent
\* values more, and the checker returned True
C10_Witness ==
    /\ call = "is_pareto_optimal"
    /\ pc = "done"
    /\ EveryItemValued
    /\ ret.exc = "none"
    /\ ret.val = TRUE
    /\ \A a \in Range(agents) : \A j \in 1..Len(items[a]) : items[a][j].v > 0
    /\ \E h, r \in Range(agents) :
          /\ h /= r
          /\ \E x \in Held(allocation, h) : Get(items[r], x) > Get(items[h], x)

====
